---- MODULE Spec2Model ----
(***************************************************************************)
(* Akenge bootloader for the CC3200 (bootloader/main.c, boot/boot.c).      *)
(*                                                                         *)
(* The state is the serial-flash file boot.cfg, the position of main() in  *)
(* its boot sequence and main()'s local bootinfo.  One action is one       *)
(* SimpleLink call (with the code's reaction to its result), so that a     *)
(* power loss can fall between any two storage operations.  A boot cycle   *)
(* runs from the entry of main() to PRCMSOCReset(), to a power loss or to  *)
(* the reboot of the image that was started by BOOTRun().                  *)
(***************************************************************************)
EXTENDS Integers, Sequences, FiniteSets, TLC

\* ---------------------------------------------------------------- bounds
\* Status integers 0..MaxStatus can be found in boot.cfg; those above
\* BOOT_ERR are the unrecognised ones.
MaxStatus == 4
\* Image integers 0..MaxImage can be found in boot.cfg; those above
\* IMG_CUSTOM are the unrecognised ones.
MaxImage == 2

\* Capacity, in abstract units, of the SRAM region that starts at BASE_ADDR.
RegionCap == 2
\* Image files are 0..MaxFileLen units long: the longest does not fit.
MaxFileLen == RegionCap + 1

\* Cleanly completed boot cycles are counted up to this number.
MaxCycles == 3

\* ------------------------------------------------------- boot.h constants
BOOT_OK == 0
BOOT_CHECK == 1
BOOT_CHECKING == 2
BOOT_ERR == 3
IMG_FACTORY == 0
IMG_CUSTOM == 1

StatusVals == 0..MaxStatus
ImageVals == 0..MaxImage

\* bootinfo_t
bootinfo_t == [status : StatusVals, bootimg : ImageVals]

\* main()'s bootinfo before anything was stored in it.
Uninit == [status |-> -1, bootimg |-> -1]

\* No image: nothing was passed to BOOTLoadImg / nothing was copied to SRAM.
NoImg == -1

\* ------------------------------------------------------ the file boot.cfg
\* st = "absent": sl_FsGetInfo fails; "empty": the 512 byte slot is
\* allocated and holds no payload; "full": it holds a bootinfo_t.
NoFile == [st |-> "absent", status |-> -1, bootimg |-> -1]
EmptySlot == [st |-> "empty", status |-> -1, bootimg |-> -1]
\* Slip: only sizeof(bootstatus_t) bytes are written.
FullFile_StatusOnly(b) == [st |-> "full", status |-> b.status, bootimg |-> -1]

FullFile(b) == [st |-> "full", status |-> b.status, bootimg |-> b.bootimg]
Payload(f) == [status |-> f.status, bootimg |-> f.bootimg]

VARIABLES
  cfg,       \* the file boot.cfg on the serial flash
  pc,        \* position of main() in the boot sequence
  bootinfo,  \* main()'s local bootinfo
  ctx,       \* branch of main() being executed
  ret,       \* RetVal inside BOOTWriteCfg / BOOTReadCfg
  loaded,    \* image copied to SRAM by BOOTLoadImg in this cycle
  \* ---- history of the current boot cycle
  startCfg,  \* boot.cfg as it was when the cycle started
  entry,     \* how the cycle started: "cold", "reset", "power", "app"
  ops,       \* storage operations issued in this cycle, in order
  decided,   \* status value the switch of main() branched on
  readFull,  \* BOOTReadCfg filled the whole bootinfo from the file
  wret,      \* result of BOOTWriteCfg in this cycle: "none", "ok", "fail"
  loadArg,   \* argument BOOTLoadImg was invoked with in this cycle
  failed,    \* a record storage operation returned an error in this cycle
  rewritten, \* the running image rewrote boot.cfg in this cycle
  \* ---- history across boot cycles
  lastLoad,  \* last image load: "none", "unconfirmed" (CHECK path), "other"
  prevLoad,  \* lastLoad as it was when the cycle started
  afterHeal, \* the previous cycle deleted boot.cfg and reset
  \* ---- SimpleLink, BOOTLoadImg, BOOTRun
  nwp,       \* network processor: "on" between sl_Start and sl_Stop
  ld,        \* what BOOTLoadImg did in this cycle
  cpu,       \* stack pointer and branch target set by BOOTRun
  \* ---- history of the file boot.cfg
  created,   \* a cycle has passed the record creation step of main()
  delStatus, \* status main() had decided on when it deleted boot.cfg
  rt,        \* record handed to BOOTWriteCfg by the round-trip harness
  \* ---- history of consecutive boot cycles
  origin,    \* boot.cfg when the current run of completed cycles began
  cycles     \* cycles completed since then without error, power loss or
             \* rewrite by the image (counted up to MaxCycles)

vars == <<cfg, pc, bootinfo, ctx, ret, loaded, startCfg, entry, ops, decided,
          readFull, wret, loadArg, failed, rewritten, lastLoad, prevLoad,
          afterHeal, nwp, ld, cpu, created, delStatus, rt, origin, cycles>>

cycleVars ==
  <<startCfg, entry, prevLoad, afterHeal, rewritten, origin, cycles>>

\* BOOTLoadImg was not called.
NoLoad ==
  [ret |-> "none", exists |-> FALSE, infoOk |-> FALSE, flen |-> 0,
   copied |-> 0]

\* BOOTRun was not called.
NoCpu == [sp |-> -2, entry |-> -2]

\* ------------------------------------------------------------ BOOTExistCfg
BOOTExistCfg(f) == f.st # "absent"

\* ------------------------------------------------- decisions of main()
\* Slip: the default record selects the custom image.
DefaultRecord_Custom == [status |-> BOOT_OK, bootimg |-> IMG_CUSTOM]

\* The record main() creates when boot.cfg is not found.
DefaultRecord == [status |-> BOOT_OK, bootimg |-> IMG_FACTORY]

\* Slip: the BOOT_CHECK branch forgets bootinfo.status = BOOT_CHECKING.
CheckRecord_KeepStatus(b) == b

\* case BOOT_CHECK: only the status is changed before the write.
CheckRecord(b) == [b EXCEPT !.status = BOOT_CHECKING]

\* Slip: the rollback forgets bootinfo.bootimg = IMG_FACTORY.
RollbackRecord_KeepImg(b) == [b EXCEPT !.status = BOOT_OK]

\* case BOOT_CHECKING / BOOT_ERR: both fields are set before the write.
RollbackRecord(b) == [status |-> BOOT_OK, bootimg |-> IMG_FACTORY]

\* Slip: case BOOT_CHECKING falls into the BOOT_CHECK branch.
SwitchCase_CheckingAsCheck(s) ==
  CASE s = BOOT_OK -> "ok"
    [] s = BOOT_CHECK -> "check"
    [] s = BOOT_CHECKING -> "check"
    [] s = BOOT_ERR -> "rollback"
    [] OTHER -> "heal"

\* Slip: case BOOT_OK falls into the rollback branch.
SwitchCase_OkAsRollback(s) ==
  CASE s = BOOT_OK -> "rollback"
    [] s = BOOT_CHECK -> "check"
    [] s = BOOT_CHECKING -> "rollback"
    [] s = BOOT_ERR -> "rollback"
    [] OTHER -> "heal"

\* Slip: no default branch, an unknown status is booted like BOOT_OK.
SwitchCase_NoDefault(s) ==
  CASE s = BOOT_CHECK -> "check"
    [] s = BOOT_CHECKING -> "rollback"
    [] s = BOOT_ERR -> "rollback"
    [] OTHER -> "ok"

\* Slip: case BOOT_ERR falls into the default branch.
SwitchCase_ErrAsHeal(s) ==
  CASE s = BOOT_OK -> "ok"
    [] s = BOOT_CHECK -> "check"
    [] s = BOOT_CHECKING -> "rollback"
    [] OTHER -> "heal"

\* The switch of main() on bootinfo.status.
SwitchCase(s) ==
  CASE s = BOOT_OK -> "ok"
    [] s = BOOT_CHECK -> "check"
    [] s = BOOT_CHECKING -> "rollback"
    [] s = BOOT_ERR -> "rollback"
    [] OTHER -> "heal"

\* Slip: the result of BOOTWriteCfg is not looked at.
AfterWriteCfg_NoReset(c, r) ==
  IF c = "default" THEN "r_exist" ELSE "load"

\* Slip: after every successful write main() reads the record back and
\* takes the switch again.
AfterWriteCfg_Reread(c, r) ==
  IF r # 0 THEN "reset" ELSE "r_exist"

\* What main() does with the result of BOOTWriteCfg.
AfterWriteCfg(c, r) ==
  IF r # 0 THEN "reset"
  ELSE IF c = "default" THEN "r_exist" ELSE "load"

\* Slip: the result of BOOTReadCfg is not looked at.
AfterReadCfg_Ignore(r) == "switch"

\* What main() does with the result of BOOTReadCfg.
AfterReadCfg(r) == IF r # 0 THEN "reset" ELSE "switch"

\* The image main() passes to BOOTLoadImg in each branch.
LoadImgFor(c, b) ==
  CASE c = "ok" -> b.bootimg
    [] c = "check" -> IMG_CUSTOM
    [] OTHER -> IMG_FACTORY

\* What main() does with the result of BOOTLoadImg: the BOOT_OK branch
\* does not look at it.
AfterLoadImg(c, r) ==
  IF c = "ok" THEN "stop"
  ELSE IF r # 0 THEN "reset" ELSE "stop"

\* Slip: the result of sl_Start is not looked at.
AfterStart_Ignore(r) == "exist"

\* What main() does with the result of sl_Start.
AfterStart(r) == IF 0 > r THEN "reset" ELSE "exist"

\* ------------------------------------------------------------------- Init
Init ==
  /\ cfg \in {NoFile} \cup {FullFile(b) : b \in bootinfo_t}
  /\ pc = "start"
  /\ bootinfo = Uninit
  /\ ctx = "init"
  /\ ret = 0
  /\ loaded = NoImg
  /\ startCfg = cfg
  /\ entry = "cold"
  /\ ops = <<>>
  /\ decided = -1
  /\ readFull = FALSE
  /\ wret = "none"
  /\ loadArg = NoImg
  /\ failed = FALSE
  /\ rewritten = FALSE
  /\ lastLoad = "none"
  /\ prevLoad = "none"
  /\ afterHeal = FALSE
  /\ nwp = "off"
  /\ ld = NoLoad
  /\ cpu = NoCpu
  /\ created = FALSE
  /\ delStatus = -1
  /\ rt = Uninit
  /\ origin = cfg
  /\ cycles = 0

\* The cycle that ends ran to BOOTRun or PRCMSOCReset with sl_Start, every
\* record operation and BOOTLoadImg successful, was not cut by a power loss
\* and its image did not rewrite boot.cfg.
CleanCycle(e) ==
  /\ e # "power"
  /\ pc \in {"reset", "app"}
  /\ ~(pc = "reset" /\ ops = <<>>)
  /\ ~failed
  /\ ld.ret # "fail"
  /\ ~rewritten

\* Entry of main() for a new boot cycle; e tells how the cycle started and
\* h whether the cycle that ends deleted boot.cfg.
NewCycle(e, h) ==
  /\ pc' = "start"
  /\ bootinfo' = Uninit
  /\ ctx' = "init"
  /\ ret' = 0
  /\ loaded' = NoImg
  /\ startCfg' = cfg'
  /\ entry' = e
  /\ ops' = <<>>
  /\ decided' = -1
  /\ readFull' = FALSE
  /\ wret' = "none"
  /\ loadArg' = NoImg
  /\ failed' = FALSE
  /\ rewritten' = FALSE
  /\ prevLoad' = lastLoad'
  /\ afterHeal' = h
  /\ nwp' = "off"
  /\ ld' = NoLoad
  /\ cpu' = NoCpu
  /\ UNCHANGED <<created, delStatus, rt>>
  /\ origin' = IF CleanCycle(e) THEN origin ELSE cfg'
  /\ cycles' = IF ~CleanCycle(e) THEN 0
                ELSE IF cycles < MaxCycles THEN cycles + 1 ELSE cycles

\* ------------------------------------------------------------ main(): NWP
\* sl_Start: on failure main() resets the SoC.
Start ==
  /\ pc = "start"
  /\ \E ok \in BOOLEAN :
       /\ pc' = AfterStart(IF ok THEN 0 ELSE -1)
       /\ nwp' = IF ok THEN "on" ELSE "off"
  /\ UNCHANGED <<cfg, bootinfo, ctx, ret, loaded, ops, decided, readFull,
                 wret, loadArg, failed, lastLoad>>
  /\ UNCHANGED cycleVars
  /\ UNCHANGED <<ld, cpu, created, delStatus, rt>>

\* if (!BOOTExistCfg()) { bootinfo = {IMG_FACTORY, BOOT_OK}; BOOTWriteCfg }
ExistCfg ==
  /\ pc = "exist"
  /\ ops' = Append(ops, "exist")
  /\ IF BOOTExistCfg(cfg)
       THEN /\ pc' = "r_exist"
            /\ UNCHANGED <<bootinfo, ctx>>
       ELSE /\ pc' = "w_exist"
            /\ bootinfo' = DefaultRecord
            /\ ctx' = "default"
  /\ UNCHANGED <<cfg, ret, loaded, decided, readFull, wret, loadArg, failed,
                 lastLoad>>
  /\ UNCHANGED cycleVars
  /\ created' = (created \/ BOOTExistCfg(cfg))
  /\ UNCHANGED <<nwp, ld, cpu, delStatus, rt>>

\* ------------------------------------------------------------ BOOTWriteCfg
\* if (BOOTExistCfg()) open for write, else BOOTCreateCfg().
W_Exist ==
  /\ pc = "w_exist"
  /\ ops' = Append(ops, "exist")
  /\ pc' = IF BOOTExistCfg(cfg) THEN "w_open" ELSE "w_create"
  /\ UNCHANGED <<cfg, bootinfo, ctx, ret, loaded, decided, readFull, wret,
                 loadArg, failed, lastLoad>>
  /\ UNCHANGED cycleVars
  /\ UNCHANGED <<nwp, ld, cpu, created, delStatus, rt>>

\* BOOTWriteCfg has returned r to main().
WriteReturns(r) ==
  /\ pc' = AfterWriteCfg(ctx, r)
  /\ wret' = IF r = 0 THEN "ok" ELSE "fail"
  /\ failed' = (failed \/ r # 0)
  /\ created' = (created \/ (ctx = "default" /\ r = 0))

\* sl_FsOpen(bootfile, FS_MODE_OPEN_WRITE): return -1 on failure.
W_Open ==
  /\ pc = "w_open"
  /\ ops' = Append(ops, "open")
  /\ \E ok \in BOOLEAN :
       IF ok THEN /\ pc' = "w_write"
                  /\ UNCHANGED <<wret, failed, created>>
             ELSE WriteReturns(-1)
  /\ UNCHANGED <<cfg, bootinfo, ctx, ret, loaded, decided, readFull,
                 loadArg, lastLoad>>
  /\ UNCHANGED cycleVars
  /\ UNCHANGED <<nwp, ld, cpu, delStatus, rt>>

\* BOOTCreateCfg: sl_FsOpen(bootfile, FS_MODE_OPEN_CREATE(512, ...)).
W_Create ==
  /\ pc = "w_create"
  /\ ops' = Append(ops, "create")
  /\ \E ok \in BOOLEAN :
       IF ok THEN /\ cfg' = EmptySlot
                  /\ pc' = "w_write"
                  /\ delStatus' = -1
                  /\ UNCHANGED <<wret, failed, created>>
             ELSE /\ cfg' = cfg
                  /\ UNCHANGED delStatus
                  /\ WriteReturns(-1)
  /\ UNCHANGED <<bootinfo, ctx, ret, loaded, decided, readFull, loadArg,
                 lastLoad>>
  /\ UNCHANGED cycleVars
  /\ UNCHANGED <<nwp, ld, cpu, rt>>

\* RetVal = sl_FsWrite(hFile, 0, bootinfo, sizeof(bootinfo_t)): the write
\* stores the whole record or nothing.
W_Write ==
  /\ pc = "w_write"
  /\ ops' = Append(ops, "write")
  /\ \E ok \in BOOLEAN :
       IF ok THEN /\ cfg' = FullFile(bootinfo)
                  /\ ret' = 0
             ELSE /\ cfg' = cfg
                  /\ ret' = -1
  /\ pc' = "w_close"
  /\ UNCHANGED <<bootinfo, ctx, loaded, decided, readFull, wret, loadArg,
                 failed, lastLoad>>
  /\ UNCHANGED cycleVars
  /\ UNCHANGED <<nwp, ld, cpu, created, delStatus, rt>>

\* sl_FsClose(hFile); return (0 > RetVal) ? -1 : 0;
W_Close ==
  /\ pc = "w_close"
  /\ ops' = Append(ops, "close")
  /\ WriteReturns(IF ret < 0 THEN -1 ELSE 0)
  /\ UNCHANGED <<cfg, bootinfo, ctx, ret, loaded, decided, readFull,
                 loadArg, lastLoad>>
  /\ UNCHANGED cycleVars
  /\ UNCHANGED <<nwp, ld, cpu, delStatus, rt>>

\* ------------------------------------------------------------- BOOTReadCfg
\* BOOTReadCfg has returned r to main().
ReadReturns(r) ==
  /\ pc' = AfterReadCfg(r)
  /\ failed' = (failed \/ r # 0)

\* if (!BOOTExistCfg()) return -1;
R_Exist ==
  /\ pc = "r_exist"
  /\ ops' = Append(ops, "exist")
  /\ IF BOOTExistCfg(cfg)
       THEN /\ pc' = "r_open"
            /\ UNCHANGED failed
       ELSE ReadReturns(-1)
  /\ UNCHANGED <<cfg, bootinfo, ctx, ret, loaded, decided, readFull, wret,
                 loadArg, lastLoad>>
  /\ UNCHANGED cycleVars
  /\ UNCHANGED <<nwp, ld, cpu, created, delStatus, rt>>

\* sl_FsOpen(bootfile, FS_MODE_OPEN_READ): return RetVal on failure.
R_Open ==
  /\ pc = "r_open"
  /\ ops' = Append(ops, "open")
  /\ \E ok \in BOOLEAN :
       IF ok THEN /\ pc' = "r_read"
                  /\ UNCHANGED failed
             ELSE ReadReturns(-1)
  /\ UNCHANGED <<cfg, bootinfo, ctx, ret, loaded, decided, readFull, wret,
                 loadArg, lastLoad>>
  /\ UNCHANGED cycleVars
  /\ UNCHANGED <<nwp, ld, cpu, created, delStatus, rt>>

\* The bytes of bootinfo after sl_FsRead returned without error: the
\* payload when the file holds one; when it holds none, nothing is copied
\* and bootinfo keeps what it held, which for a variable never assigned is
\* any value.
ReadInto(f, b) ==
  IF f.st = "full" THEN {Payload(f)}
  ELSE IF b = Uninit THEN bootinfo_t ELSE {b}

\* RetVal = sl_FsRead(hFile, 0, bootinfo, sizeof(bootinfo_t)): an error
\* (RetVal < 0) or the number of bytes read.
R_Read ==
  /\ pc = "r_read"
  /\ ops' = Append(ops, "read")
  /\ \E ok \in BOOLEAN :
       IF ok THEN /\ bootinfo' \in ReadInto(cfg, bootinfo)
                  /\ readFull' = (cfg.st = "full")
                  /\ ret' = IF cfg.st = "full" THEN 8 ELSE 0
             ELSE /\ ret' = -1
                  /\ UNCHANGED <<bootinfo, readFull>>
  /\ pc' = "r_close"
  /\ UNCHANGED <<cfg, ctx, loaded, decided, wret, loadArg, failed, lastLoad>>
  /\ UNCHANGED cycleVars
  /\ UNCHANGED <<nwp, ld, cpu, created, delStatus, rt>>

\* sl_FsClose(hFile); return (RetVal < 0) ? RetVal : 0;
R_Close ==
  /\ pc = "r_close"
  /\ ops' = Append(ops, "close")
  /\ ReadReturns(IF ret < 0 THEN ret ELSE 0)
  /\ UNCHANGED <<cfg, bootinfo, ctx, ret, loaded, decided, readFull, wret,
                 loadArg, lastLoad>>
  /\ UNCHANGED cycleVars
  /\ UNCHANGED <<nwp, ld, cpu, created, delStatus, rt>>

\* ------------------------------------------------- main(): switch (status)
Switch ==
  /\ pc = "switch"
  /\ decided' = bootinfo.status
  /\ ctx' = SwitchCase(bootinfo.status)
  /\ CASE ctx' = "ok" ->
            /\ pc' = "load"
            /\ UNCHANGED bootinfo
       [] ctx' = "check" ->
            /\ pc' = "w_exist"
            /\ bootinfo' = CheckRecord(bootinfo)
       [] ctx' = "rollback" ->
            /\ pc' = "w_exist"
            /\ bootinfo' = RollbackRecord(bootinfo)
       [] OTHER ->
            /\ pc' = "delete"
            /\ UNCHANGED bootinfo
  /\ UNCHANGED <<cfg, ret, loaded, ops, readFull, wret, loadArg, failed,
                 lastLoad>>
  /\ UNCHANGED cycleVars
  /\ UNCHANGED <<nwp, ld, cpu, created, delStatus, rt>>

\* default: BOOTDeleteCfg(); PRCMSOCReset();  The result of sl_FsDel is
\* not looked at.
Delete ==
  /\ pc = "delete"
  /\ ops' = Append(ops, "delete")
  /\ \E ok \in BOOLEAN :
       /\ cfg' = IF ok THEN NoFile ELSE cfg
       /\ failed' = (failed \/ ~ok)
       /\ delStatus' = IF ok THEN decided ELSE delStatus
  /\ pc' = "reset"
  /\ UNCHANGED <<bootinfo, ctx, ret, loaded, decided, readFull, wret,
                 loadArg, lastLoad>>
  /\ UNCHANGED cycleVars
  /\ UNCHANGED <<nwp, ld, cpu, created, rt>>

\* ------------------------------------------------------------- BOOTLoadImg
\* What the serial flash does during one call of BOOTLoadImg: whether the
\* image file can be opened, whether sl_FsGetInfo succeeds, the length of
\* the file, the FileLen left in the never-assigned FileInfo when
\* sl_FsGetInfo fails, and the result of sl_FsRead: -1 for an error, else
\* the most bytes it delivers.
FlashEnv ==
  [exists : BOOLEAN, infoOk : BOOLEAN, flen : 0..MaxFileLen,
   junk : 0..MaxFileLen, rd : -1..MaxFileLen]

Min(a, b) == IF a < b THEN a ELSE b

\* BOOTLoadImg(img): the switch on img, sl_FsOpen, sl_FsGetInfo (result not
\* looked at), sl_FsRead of FileInfo.FileLen bytes to BASE_ADDR, and
\* return 0 unless sl_FsOpen failed or sl_FsRead returned a negative value.
BOOTLoadImg(img, e) ==
  IF img \notin {IMG_FACTORY, IMG_CUSTOM} THEN [NoLoad EXCEPT !.ret = "fail"]
  ELSE IF ~e.exists THEN [NoLoad EXCEPT !.ret = "fail"]
  ELSE LET FileLen == IF e.infoOk THEN e.flen ELSE e.junk
           RetVal == IF e.rd < 0 THEN -1
                     ELSE Min(e.rd, Min(FileLen, e.flen))
       IN [ret |-> IF 0 > RetVal THEN "fail" ELSE "ok",
           exists |-> TRUE,
           infoOk |-> e.infoOk,
           flen |-> e.flen,
           copied |-> IF 0 > RetVal THEN 0 ELSE RetVal]

LoadImg ==
  /\ pc = "load"
  /\ ops' = Append(ops, "load")
  /\ loadArg' = LoadImgFor(ctx, bootinfo)
  /\ \E e \in FlashEnv :
       /\ ld' = BOOTLoadImg(loadArg', e)
       /\ LET r == IF ld'.ret = "ok" THEN 0 ELSE -1 IN
            /\ loaded' = IF r = 0 THEN loadArg' ELSE loaded
            /\ lastLoad' = IF r # 0 THEN lastLoad
                           ELSE IF ctx = "check" THEN "unconfirmed"
                           ELSE "other"
            /\ pc' = AfterLoadImg(ctx, r)
  /\ UNCHANGED <<cfg, bootinfo, ctx, ret, decided, readFull, wret, failed>>
  /\ UNCHANGED cycleVars
  /\ UNCHANGED <<nwp, cpu, created, delStatus, rt>>

\* ------------------------------------------------------ main(): handoff
\* sl_Stop(0), the report of the selected image, PRINTClose().
Stop ==
  /\ pc = "stop"
  /\ pc' = "run"
  /\ UNCHANGED <<cfg, bootinfo, ctx, ret, loaded, ops, decided, readFull,
                 wret, loadArg, failed, lastLoad>>
  /\ UNCHANGED cycleVars
  /\ nwp' = "off"
  /\ UNCHANGED <<ld, cpu, created, delStatus, rt>>

\* The first two words of an image file: the initial stack pointer and the
\* address of ResetISR.
ImageVector(img) == [w0 |-> 10 + 2 * img, w1 |-> 11 + 2 * img]

\* The first two words at BASE_ADDR: those of the image that was loaded, or
\* whatever the SRAM held when nothing was loaded.
Sram(img) == IF img = NoImg THEN [w0 |-> -1, w1 |-> -1] ELSE ImageVector(img)

\* Slip: the two words of the vector table are swapped.
BOOTRun_Swapped(mem) == [sp |-> mem.w1, entry |-> mem.w0]

\* BOOTRun: ldr r1, [r0]; mov sp, r1; ldr r1, [r0, #4]; bx r1.
BOOTRun(mem) == [sp |-> mem.w0, entry |-> mem.w1]

\* BOOTRun((void*) BASE_ADDR): the code at the entry address takes over; if
\* it ever returns to main(), the next statement is PRCMSOCReset().
Run ==
  /\ pc = "run"
  /\ cpu' = BOOTRun(Sram(loaded))
  /\ \E returns \in BOOLEAN : pc' = IF returns THEN "reset" ELSE "app"
  /\ UNCHANGED <<cfg, bootinfo, ctx, ret, loaded, ops, decided, readFull,
                 wret, loadArg, failed, lastLoad>>
  /\ UNCHANGED cycleVars
  /\ UNCHANGED <<nwp, ld, created, delStatus, rt>>

\* PRCMSOCReset(): the SoC restarts and main() is entered again.
Reset ==
  /\ pc = "reset"
  /\ UNCHANGED <<cfg, lastLoad>>
  /\ NewCycle("reset", ctx = "heal" /\ cfg.st = "absent")

\* ------------------------------------------------------------ environment
\* Power is lost anywhere in the sequence or while the image runs; the
\* flash keeps what was written.
PowerLoss ==
  /\ pc # "start"
  /\ UNCHANGED <<cfg, lastLoad>>
  /\ NewCycle("power", FALSE)

\* The running image (OTA update, self test) rewrites boot.cfg with
\* BOOTWriteCfg.
AppRewrite ==
  /\ pc = "app"
  /\ \E s \in {BOOT_OK, BOOT_CHECK, BOOT_CHECKING, BOOT_ERR},
        i \in {IMG_FACTORY, IMG_CUSTOM} :
       cfg' = FullFile([status |-> s, bootimg |-> i])
  /\ lastLoad' = "none"
  /\ rewritten' = TRUE
  /\ UNCHANGED <<pc, bootinfo, ctx, ret, loaded, ops, decided, readFull,
                 wret, loadArg, failed>>
  /\ UNCHANGED <<startCfg, entry, prevLoad, afterHeal, origin, cycles>>
  /\ delStatus' = -1
  /\ UNCHANGED <<nwp, ld, cpu, created, rt>>

\* The running image restarts the device.
AppReboot ==
  /\ pc = "app"
  /\ UNCHANGED <<cfg, lastLoad>>
  /\ NewCycle("app", FALSE)

Next ==
  \/ Start
  \/ ExistCfg
  \/ W_Exist
  \/ W_Open
  \/ W_Create
  \/ W_Write
  \/ W_Close
  \/ R_Exist
  \/ R_Open
  \/ R_Read
  \/ R_Close
  \/ Switch
  \/ Delete
  \/ LoadImg
  \/ Stop
  \/ Run
  \/ Reset
  \/ PowerLoss
  \/ AppRewrite
  \/ AppReboot

Spec == Init /\ [][Next]_vars


\* ------------------------------------------------- write / read round trip
\* BOOTWriteCfg followed by BOOTReadCfg, as main() calls them one after
\* the other when it creates the record, here with any valid record and
\* with boot.cfg absent, allocated but not written, or holding any record.
InitRT ==
  /\ cfg \in {NoFile, EmptySlot} \cup {FullFile(b) : b \in bootinfo_t}
  /\ rt \in [status : {BOOT_OK, BOOT_CHECK, BOOT_CHECKING, BOOT_ERR},
             bootimg : {IMG_FACTORY, IMG_CUSTOM}]
  /\ bootinfo = rt
  /\ pc = "w_exist"
  /\ ctx = "default"
  /\ ret = 0
  /\ loaded = NoImg
  /\ startCfg = cfg
  /\ entry = "cold"
  /\ ops = <<>>
  /\ decided = -1
  /\ readFull = FALSE
  /\ wret = "none"
  /\ loadArg = NoImg
  /\ failed = FALSE
  /\ rewritten = FALSE
  /\ lastLoad = "none"
  /\ prevLoad = "none"
  /\ afterHeal = FALSE
  /\ nwp = "on"
  /\ ld = NoLoad
  /\ cpu = NoCpu
  /\ created = FALSE
  /\ delStatus = -1
  /\ origin = cfg
  /\ cycles = 0

NextRT ==
  \/ W_Exist
  \/ W_Open
  \/ W_Create
  \/ W_Write
  \/ W_Close
  \/ R_Exist
  \/ R_Open
  \/ R_Read
  \/ R_Close

SpecRT == InitRT /\ [][NextRT]_vars

\* ------------------------------------------------------------ properties
InCycle == pc # "app"
AtHandoff == pc \in {"stop", "run"}
StartsWith(S) == startCfg.st = "full" /\ startCfg.status \in S
OkFactory == [st |-> "full", status |-> BOOT_OK, bootimg |-> IMG_FACTORY]
CheckingCustom ==
  [st |-> "full", status |-> BOOT_CHECKING, bootimg |-> IMG_CUSTOM]
Count(o) == Cardinality({i \in 1..Len(ops) : ops[i] = o})

\* C1: in a boot cycle that starts from a CHECK, CHECKING or ERR record,
\* BOOTLoadImg is only invoked after BOOTWriteCfg returned success with the
\* new record in boot.cfg, and after a failed write the cycle resets
\* without any load.
C1_WriteBeforeLoad ==
  StartsWith({BOOT_CHECK, BOOT_CHECKING, BOOT_ERR}) =>
    /\ (pc = "load" \/ loadArg # NoImg) =>
         /\ wret = "ok"
         /\ Count("write") = 1
         /\ (~rewritten => (cfg = FullFile(bootinfo) /\ cfg # startCfg))
    /\ wret = "fail" => (pc = "reset" /\ loadArg = NoImg /\ loaded = NoImg)

C1_Witness ==
  /\ StartsWith({BOOT_CHECK})
  /\ pc = "load"
  /\ wret = "ok"

\* C2: a boot cycle that finds {CHECKING, CUSTOM}, however the cycle before
\* it ended (power loss included), only ever loads IMG_FACTORY and hands
\* over with {OK, FACTORY} stored; and after an unconfirmed load of the
\* custom image (CHECK path, no rewrite of boot.cfg since) the next cycles
\* do not load IMG_CUSTOM.
C2_RollbackAfterChecking ==
  /\ startCfg = CheckingCustom =>
       /\ loadArg \in {NoImg, IMG_FACTORY}
       /\ loaded \in {NoImg, IMG_FACTORY}
       /\ AtHandoff => (cfg = OkFactory /\ loaded = IMG_FACTORY)
  /\ prevLoad = "unconfirmed" =>
       /\ startCfg.st = "full"
       /\ startCfg.status = BOOT_CHECKING \/ startCfg = OkFactory
       /\ loadArg # IMG_CUSTOM /\ loaded # IMG_CUSTOM

C2_Witness ==
  /\ entry = "power"
  /\ prevLoad = "unconfirmed"
  /\ startCfg = CheckingCustom
  /\ pc = "run"
  /\ loaded = IMG_FACTORY

\* C3: the switch of main() only ever decides on a record that boot.cfg
\* holds completely: when the decision is taken the file holds a written
\* {status, image} payload and bootinfo equals it.
C3_DecideOnWrittenRecord ==
  pc = "switch" => (cfg.st = "full" /\ bootinfo = Payload(cfg))

\* C4: a boot cycle that starts from a CHECK record, whatever its image
\* field, hands over with exactly {CHECKING, CUSTOM} stored and the custom
\* image loaded.
C4_CheckPersistsCheckingCustom ==
  (StartsWith({BOOT_CHECK}) /\ AtHandoff) =>
    (cfg = CheckingCustom /\ loaded = IMG_CUSTOM)

\* The storage operations of the rollback branch, in order: the existence
\* check of main(), BOOTReadCfg, BOOTWriteCfg, BOOTLoadImg.
RollbackOps ==
  <<"exist", "exist", "open", "read", "close",
    "exist", "open", "write", "close", "load">>

\* C5: a boot cycle that starts from a CHECKING or ERR record, whatever its
\* image field, writes exactly {OK, FACTORY}, loads IMG_FACTORY, and reaches
\* the handoff by one and the same sequence of storage operations for both
\* statuses.
C5_CheckingErrRollBack ==
  StartsWith({BOOT_CHECKING, BOOT_ERR}) =>
    /\ loadArg \in {NoImg, IMG_FACTORY}
    /\ (InCycle /\ cfg # startCfg) => cfg = OkFactory
    /\ AtHandoff =>
         /\ cfg = OkFactory
         /\ loaded = IMG_FACTORY
         /\ ops = RollbackOps

C5_Witness ==
  /\ StartsWith({BOOT_ERR})
  /\ startCfg.bootimg = IMG_CUSTOM
  /\ pc = "stop"
  /\ cfg = OkFactory

\* The storage operations of the BOOT_OK branch, in order.
OkOps == <<"exist", "exist", "open", "read", "close", "load">>

\* C6: a boot cycle that starts from an OK record with a FACTORY or CUSTOM
\* image invokes BOOTLoadImg with the stored image only and issues no
\* write, create or delete: until the running image rewrites it, boot.cfg
\* stays what it was, so every cycle that starts from {OK, FACTORY} ends
\* with {OK, FACTORY}.
C6_OkLeavesRecordAlone ==
  (StartsWith({BOOT_OK}) /\ startCfg.bootimg \in {IMG_FACTORY, IMG_CUSTOM}) =>
    /\ ~rewritten => cfg = startCfg
    /\ Count("write") = 0 /\ Count("create") = 0 /\ Count("delete") = 0
    /\ wret = "none"
    /\ loadArg \in {NoImg, startCfg.bootimg}
    /\ loaded \in {NoImg, startCfg.bootimg}
    /\ AtHandoff => (loadArg = startCfg.bootimg /\ ops = OkOps)

C6_Witness ==
  /\ startCfg = OkFactory
  /\ entry = "app"
  /\ pc = "run"
  /\ loaded = IMG_FACTORY
  /\ cfg = OkFactory

\* C7: a boot cycle that starts from a record with an unrecognised status
\* loads nothing and never reaches the handoff: after the read it deletes
\* boot.cfg and resets; the cycle after a completed delete starts without
\* boot.cfg, and when it reaches the handoff it has recreated {OK, FACTORY}
\* and invoked BOOTLoadImg with IMG_FACTORY.
C7_UnknownStatusSelfHeals ==
  /\ StartsWith(StatusVals \ {BOOT_OK, BOOT_CHECK, BOOT_CHECKING, BOOT_ERR}) =>
       /\ loadArg = NoImg /\ loaded = NoImg /\ wret = "none"
       /\ pc \in {"start", "exist", "r_exist", "r_open", "r_read", "r_close",
                  "switch", "delete", "reset"}
       /\ decided # -1 =>
            /\ pc \in {"delete", "reset"}
            /\ pc = "reset" =>
                 (Count("delete") = 1 /\ (~failed => cfg = NoFile))
  /\ afterHeal =>
       /\ startCfg = NoFile
       /\ entry = "reset"
       /\ loadArg \in {NoImg, IMG_FACTORY}
       /\ AtHandoff =>
            (cfg = OkFactory /\ loadArg = IMG_FACTORY
               /\ loaded \in {NoImg, IMG_FACTORY})

C7_Witness ==
  /\ afterHeal
  /\ pc = "run"
  /\ cfg = OkFactory
  /\ loaded = IMG_FACTORY

\* The storage operations of a first boot, in order: the existence check of
\* main(), BOOTWriteCfg with BOOTCreateCfg, BOOTReadCfg, BOOTLoadImg.
FirstBootOps ==
  <<"exist", "exist", "create", "write", "close",
    "exist", "open", "read", "close", "load">>

\* C8: a boot cycle that starts without boot.cfg and reaches the handoff
\* has created the file with {OK, FACTORY}, read that record back, taken
\* the BOOT_OK branch and invoked BOOTLoadImg with IMG_FACTORY, with one
\* write and nothing else changing the file.
C8_FirstBootCreatesDefault ==
  startCfg = NoFile =>
    /\ (InCycle /\ cfg.st = "full") => cfg = OkFactory
    /\ loadArg \in {NoImg, IMG_FACTORY}
    /\ AtHandoff =>
         /\ cfg = OkFactory
         /\ readFull /\ bootinfo = Payload(OkFactory)
         /\ decided = BOOT_OK
         /\ loadArg = IMG_FACTORY
         /\ loaded \in {NoImg, IMG_FACTORY}
         /\ ops = FirstBootOps

C8_Witness ==
  /\ startCfg = NoFile
  /\ entry = "cold"
  /\ pc = "stop"
  /\ loaded = IMG_FACTORY

\* C9: whenever the custom image has been loaded for the handoff, boot.cfg
\* holds a CHECKING record or {OK, CUSTOM}.
C9_CustomOnlyUnderCheckingOrOkCustom ==
  (AtHandoff /\ loaded = IMG_CUSTOM) =>
    /\ cfg.st = "full"
    /\ \/ cfg.status = BOOT_CHECKING
       \/ (cfg.status = BOOT_OK /\ cfg.bootimg = IMG_CUSTOM)

\* C10: once BOOTWriteCfg, BOOTReadCfg or BOOTDeleteCfg has returned an
\* error, the cycle is at PRCMSOCReset: no image was or is loaded, the
\* handoff is not reached, and no record operation is issued twice in a
\* cycle.
C10_StorageErrorIsFatal ==
  /\ failed => (pc = "reset" /\ loadArg = NoImg /\ loaded = NoImg)
  /\ \A o \in {"create", "write", "read", "delete"} : Count(o) <= 1

C10_Witness ==
  /\ failed
  /\ ctx = "check"
  /\ wret = "fail"
  /\ pc = "reset"

\* C11: once BOOTLoadImg has returned an error the cycle is at
\* PRCMSOCReset, and the handoff is only reached after a BOOTLoadImg that
\* returned success in the same cycle.
C11_LoadFailureResets ==
  /\ (InCycle /\ ld.ret = "fail") => pc = "reset"
  /\ (AtHandoff \/ cpu # NoCpu) => ld.ret = "ok"

\* C12: a boot cycle that starts from a record whose image is neither
\* IMG_FACTORY nor IMG_CUSTOM, whatever its status, writes nothing, loads
\* nothing and never reaches the handoff: after the read it deletes
\* boot.cfg and resets.
C12_UnknownImageSelfHeals ==
  (startCfg.st = "full" /\ startCfg.bootimg \notin {IMG_FACTORY, IMG_CUSTOM}) =>
    /\ loadArg = NoImg /\ wret = "none" /\ cpu = NoCpu
    /\ pc \in {"start", "exist", "r_exist", "r_open", "r_read", "r_close",
               "switch", "delete", "reset"}

\* C13 as stated: once a boot cycle has passed the record creation step of
\* main(), boot.cfg exists in every later state.
C13_RecordAlwaysExists ==
  created => cfg.st # "absent"

\* C13 as amended: boot.cfg is missing only before the first cycle has
\* passed the record creation step, or after main() deleted it on deciding
\* on an unrecognised status and before it is created again; at the
\* handoff the file exists.
C13_AbsentOnlyBeforeFirstBootOrAfterHeal ==
  /\ cfg.st = "absent" =>
       \/ ~created
       \/ delStatus \in (StatusVals \ {BOOT_OK, BOOT_CHECK, BOOT_CHECKING,
                                      BOOT_ERR})
  /\ (AtHandoff \/ pc = "app") => cfg.st # "absent"

C13_Witness ==
  /\ cfg.st = "absent"
  /\ created
  /\ entry = "reset"
  /\ pc = "w_create"

\* C14: after BOOTWriteCfg returned success for a valid record, whatever
\* boot.cfg was before, the file holds exactly that record, and a
\* BOOTReadCfg that follows fails only on a flash error and otherwise
\* returns success with bootinfo equal to the record written.
C14_WriteReadRoundTrip ==
  (rt # Uninit /\ wret = "ok") =>
    /\ cfg.st = "full" /\ cfg.status = rt.status /\ cfg.bootimg = rt.bootimg
    /\ pc = "reset" => ret < 0 \/ Count("read") = 0
    /\ (pc = "r_close" /\ ret >= 0) => bootinfo = rt
    /\ pc = "switch" => (bootinfo = rt /\ readFull /\ ~failed)

C14_Witness ==
  /\ startCfg = OkFactory
  /\ rt = [status |-> BOOT_CHECK, bootimg |-> IMG_CUSTOM]
  /\ pc = "switch"
  /\ bootinfo = rt

\* C15: a boot cycle ends at PRCMSOCReset or in BOOTRun on an image that
\* BOOTLoadImg loaded in this cycle, and the switch of main() takes one of
\* its branches for every status value.
C15_CycleEndsInHandoffOrReset ==
  /\ decided # -1 => ctx \in {"ok", "check", "rollback", "heal"}
  /\ (pc = "app" \/ cpu # NoCpu) => loaded \in {IMG_FACTORY, IMG_CUSTOM}

\* C16: BOOTRun takes the stack pointer from word 0 and the branch target
\* from word 1 of what is at BASE_ADDR; once it has run, main() is either
\* gone (the image runs) or at PRCMSOCReset, and the boot selector issues
\* no storage operation, record change or image load any more in that
\* cycle.
C16_RunNeverContinues ==
  /\ [](cpu # NoCpu =>
          /\ cpu.sp = Sram(loaded).w0
          /\ cpu.entry = Sram(loaded).w1
          /\ pc \in {"app", "reset"}
          /\ nwp = "off"
          /\ Count("load") = 1 /\ ops[Len(ops)] = "load")
  /\ [][cpu # NoCpu =>
          /\ pc' \in {"app", "start"}
          /\ ops' = ops \/ ops' = <<>>
          /\ loaded' = loaded \/ loaded' = NoImg
          /\ cfg' = cfg \/ (pc = "app" /\ rewritten')]_vars

C16_Witness ==
  /\ cpu = [sp |-> ImageVector(IMG_CUSTOM).w0,
            entry |-> ImageVector(IMG_CUSTOM).w1]
  /\ loaded = IMG_CUSTOM
  /\ pc = "reset"

\* C17: BOOTLoadImg copies no more bytes to BASE_ADDR than the region
\* holds, and returns an error for an image file longer than the region.
C17_NoOverflow ==
  /\ ld.copied <= RegionCap
  /\ (ld.exists /\ ld.flen > RegionCap) => ld.ret = "fail"

\* C18: BOOTLoadImg returns success only when the image file was opened,
\* sl_FsGetInfo gave its length and as many bytes as the file is long were
\* copied.
C18_LoadSuccessMeansComplete ==
  ld.ret = "ok" => (ld.exists /\ ld.infoOk /\ ld.copied = ld.flen)

\* C19: every storage operation of a cycle is issued while the network
\* processor is on, that is after a successful sl_Start and before
\* sl_Stop; BOOTRun is reached only after sl_Stop, which follows the image
\* load; and after a failed sl_Start the cycle is at PRCMSOCReset without
\* any storage operation.
C19_StorageOnlyWhileNwpOn ==
  /\ [](/\ pc \in {"exist", "w_exist", "w_open", "w_create", "w_write",
                   "w_close", "r_exist", "r_open", "r_read", "r_close",
                   "switch", "delete", "load", "stop"} => nwp = "on"
        /\ ops # <<>> => (nwp = "on" \/ pc \in {"run", "app", "reset"})
        /\ (nwp = "off" /\ pc = "reset" /\ cpu = NoCpu) => ops = <<>>
        /\ pc \in {"run", "app"} => (nwp = "off" /\ ld.ret # "none"))
  /\ [][(ops' # ops /\ ops' # <<>>) => (nwp = "on" /\ nwp' = "on")]_vars

C19_Witness ==
  /\ pc = "reset"
  /\ nwp = "off"
  /\ cpu = NoCpu
  /\ ops = <<>>

\* C21: BOOTReadCfg returns success only when boot.cfg exists and its whole
\* {status, image} payload was read into bootinfo, it does not open a file
\* that does not exist, and the switch of main() is only evaluated after
\* such a complete read in the same cycle.
C21_ReadSuccessMeansFullRecord ==
  /\ (pc = "r_close" /\ ret >= 0) => (cfg.st = "full" /\ readFull)
  /\ (pc = "switch" \/ decided # -1) => (readFull /\ Count("read") = 1)
  /\ cfg.st = "absent" => pc \notin {"r_open", "r_read", "r_close", "switch"}

\* Positions of main() inside BOOTWriteCfg or before BOOTDeleteCfg.
MutationPcs ==
  {"w_exist", "w_open", "w_create", "w_write", "w_close", "delete"}

\* C22: a boot cycle calls BOOTWriteCfg or BOOTDeleteCfg at most once and
\* never both, with at most one create, one write and one delete issued;
\* the call comes before BOOTLoadImg, after which boot.cfg is not touched
\* until the image that runs rewrites it; and the cycle that creates the
\* default record takes the BOOT_OK branch and writes nothing else.
C22_OneMutationBeforeLoad ==
  /\ [](/\ Count("create") <= 1 /\ Count("write") <= 1
        /\ Count("delete") <= 1
        /\ Count("write") + Count("delete") <= 1
        /\ Count("create") + Count("delete") <= 1
        /\ pc \in MutationPcs =>
             (wret = "none" /\ Count("delete") = 0 /\ loadArg = NoImg)
        /\ (pc = "delete" \/ Count("delete") = 1) =>
             (Count("create") = 0 /\ Count("write") = 0 /\ wret = "none")
        /\ Count("delete") = 1 => (pc = "reset" /\ loadArg = NoImg)
        /\ (InCycle /\ wret # "none") => pc \notin MutationPcs
        /\ Count("load") >= 1 =>
             (Count("load") = 1 /\ ops[Len(ops)] = "load")
        /\ Count("create") = 1 =>
             (ctx \in {"default", "ok"} /\ decided \in {-1, BOOT_OK}))
  /\ [][(loadArg # NoImg /\ cfg' # cfg) => (pc = "app" /\ rewritten')]_vars

C22_Witness ==
  /\ Count("create") = 1
  /\ wret = "ok"
  /\ decided = BOOT_OK
  /\ ld.ret = "ok"
  /\ pc = "run"

\* Statuses other than the four of bootstatus_t.
UnknownStatus == StatusVals \ {BOOT_OK, BOOT_CHECK, BOOT_CHECKING, BOOT_ERR}

\* C23: starting from no boot.cfg or from any written record, once two
\* boot cycles in a row have completed without an error of sl_Start, of a
\* record operation or of BOOTLoadImg, without power loss and without the
\* image rewriting boot.cfg, the stored record has status BOOT_OK; it is
\* {OK, FACTORY} unless the start was a BOOT_OK record, which is kept; and
\* every later boot writes, creates and deletes nothing and invokes
\* BOOTLoadImg with the stored image only.
C23_ConvergesWithinTwoCycles ==
  (cycles >= 2 /\ origin.st # "empty") =>
    /\ startCfg.st = "full" /\ startCfg.status = BOOT_OK
    /\ (origin.st = "full" /\ origin.status = BOOT_OK) => startCfg = origin
    /\ (origin.st = "absent" \/ origin.status # BOOT_OK) =>
         startCfg = OkFactory
    /\ ~rewritten => cfg = startCfg
    /\ Count("write") = 0 /\ Count("create") = 0 /\ Count("delete") = 0
    /\ wret = "none"
    /\ decided \in {-1, BOOT_OK}
    /\ loadArg \in {NoImg, startCfg.bootimg}
    /\ AtHandoff => loadArg = startCfg.bootimg

C23_Witness ==
  /\ cycles = 2
  /\ origin = [st |-> "full", status |-> BOOT_CHECK, bootimg |-> IMG_CUSTOM]
  /\ cfg = OkFactory
  /\ loaded = IMG_FACTORY
  /\ pc = "run"

====
